---- MODULE Spec2Model ----
(***************************************************************************)
(* Ledger reconciliation engine of the finance-management app              *)
(* (DatabaseProvider in src/unnamed/part_003, the export / import code of  *)
(* src/screens/SettingsScreen.js).                                         *)
(*                                                                         *)
(* The SQLite tables are the variables db*; the React state of the         *)
(* provider (the in-memory projections) are assets, transactions, budgets  *)
(* and recentlyDeleted.  An operation of the provider is a closure over    *)
(* the React state of the render that created it: every read of `assets`,  *)
(* `budgets`, `transactions` inside one operation sees the value at the    *)
(* start of the operation (the unprimed variable), and of several          *)
(* setX(value) calls inside one operation the last one decides X'.         *)
(* An operation is written as an operator from the state before it (a      *)
(* record S of all the variables) to the state after it, and the actions   *)
(* apply these operators.  Money is integral here (the REAL columns hold   *)
(* whole amounts).                                                         *)
(***************************************************************************)
EXTENDS Integers, Sequences, FiniteSets, Bags, TLC

VARIABLES
    dbAssets,        \* table assets: sequence of rows in rowid order
    dbTransactions,  \* table transactions
    dbBudgets,       \* table budgets
    dbHistory,       \* table transaction_history
    dbArchived,      \* table archived_transactions
    seqTransactions, \* sqlite_sequence of transactions (last rowid given out)
    seqBudgets,      \* sqlite_sequence of budgets
    seqArchived,     \* sqlite_sequence of archived_transactions
    assets,          \* React state: assets (kept sorted by amount, descending)
    transactions,    \* React state: transactions
    budgets,         \* React state: budgets
    recentlyDeleted, \* React state: the undo buffer
    exportFile,      \* the JSON document written by exportData (<<>> = none yet)
    dbArchiveSettings,    \* table archive_settings: no row, or the row with id 1
    db,                   \* React state: the database handle (0 = null)
    dbInitialized,        \* React state: setupDatabase got as far as the loads
    archiveSettings,      \* React state: the archive settings
    archivedTransactions, \* React state: the loaded pages of the archive
    opens,                \* number of SQLite.openDatabaseAsync calls made so far
    pc,                   \* the call a running reload is in ("idle" = none runs)
    bornAt,          \* auxiliary: per budget id, seqTransactions when it was inserted
    nOps,            \* number of operations run so far (bounded)
    last             \* the operation that ran last, its input and result

vars == <<dbAssets, dbTransactions, dbBudgets, dbHistory, dbArchived,
          seqTransactions, seqBudgets, seqArchived, assets, transactions,
          budgets, recentlyDeleted, exportFile, dbArchiveSettings, db,
          dbInitialized, archiveSettings, archivedTransactions, opens, pc,
          bornAt, nOps, last>>

----------------------------------------------------------------------------
(* Bounds of the model *)

MaxOps == 4

(* Program constants: the default archive settings. *)
archiveAfterMonths == 12
keepRecentMonths == 3

(* Clock: months since an arbitrary origin; "now" is fixed during a run. *)
Now == archiveAfterMonths + 1

(* Input domains *)
Amounts == {30, 50}
Categories == {"Food", "Transport"}
AssetNames == {"Wallet", "Bank"}
Locations == AssetNames \cup {"Ghost"}
InputTypes == {"income", "expense", "Expense"}
StoredTypes == {"income", "expense"}
Periods == {"Monthly"}
BudgetAmounts == {200}
RecentDates == {Now}
AllDates == {0, 8, Now}

Baseline(name) == IF name = "Wallet" THEN 100 ELSE 200

----------------------------------------------------------------------------
(* Helpers for JavaScript arrays *)

Range(s) == {s[i] : i \in 1..Len(s)}

Min(a, b) == IF a < b THEN a ELSE b

(* Array.prototype.find on a predicate over a field: index of the first
   element whose field equals the value, 0 when there is none *)
FindIndex(s, field, value) ==
    IF \E i \in 1..Len(s) : s[i][field] = value
    THEN CHOOSE i \in 1..Len(s) :
            /\ s[i][field] = value
            /\ \A j \in 1..(i-1) : s[j][field] # value
    ELSE 0

(* array.map(x => x.id === r.id ? r : x) *)
ReplaceById(s, r) == [i \in 1..Len(s) |-> IF s[i].id = r.id THEN r ELSE s[i]]

(* array.filter(x => x.id !== id) *)
RECURSIVE RemoveById(_, _)
RemoveById(s, id) ==
    IF s = <<>> THEN <<>>
    ELSE IF Head(s).id = id THEN RemoveById(Tail(s), id)
         ELSE <<Head(s)>> \o RemoveById(Tail(s), id)

(* array.filter(x => x[field] === value) *)
RECURSIVE FilterBy(_, _, _)
FilterBy(s, field, value) ==
    IF s = <<>> THEN <<>>
    ELSE IF Head(s)[field] = value THEN <<Head(s)>> \o FilterBy(Tail(s), field, value)
         ELSE FilterBy(Tail(s), field, value)

(* UPDATE table SET amount = ? WHERE id = ? *)
SetAmountWhereId(table, id, amount) ==
    [i \in 1..Len(table) |->
        IF table[i].id = id THEN [table[i] EXCEPT !.amount = amount] ELSE table[i]]

(* UPDATE budgets SET spent = ? WHERE id = ? *)
SetSpentWhereId(table, id, spent) ==
    [i \in 1..Len(table) |->
        IF table[i].id = id THEN [table[i] EXCEPT !.spent = spent] ELSE table[i]]

(* Math.max(0, x) *)
FloorAtZeroNoFloor(x) == x
FloorAtZero(x) == IF x < 0 THEN 0 ELSE x

(* String.prototype.toLowerCase on the type names that occur *)
toLowerCase(s) ==
    CASE s = "Income" -> "income"
      [] s = "Expense" -> "expense"
      [] s = "INCOME" -> "income"
      [] s = "EXPENSE" -> "expense"
      [] OTHER -> s

(* sortAssetsByAmount: a stable sort, highest amount first *)
RECURSIVE InsertByAmount(_, _)
InsertByAmount(sorted, a) ==
    IF sorted = <<>> THEN <<a>>
    ELSE IF Head(sorted).amount >= a.amount
         THEN <<Head(sorted)>> \o InsertByAmount(Tail(sorted), a)
         ELSE <<a>> \o sorted

RECURSIVE sortAssetsByAmount(_)
sortAssetsByAmount(s) ==
    IF s = <<>> THEN <<>>
    ELSE InsertByAmount(sortAssetsByAmount(SubSeq(s, 1, Len(s) - 1)), s[Len(s)])

----------------------------------------------------------------------------
(* The state as a record, and the step to a state given as a record *)

State ==
    [dbAssets |-> dbAssets, dbTransactions |-> dbTransactions,
     dbBudgets |-> dbBudgets, dbHistory |-> dbHistory, dbArchived |-> dbArchived,
     seqTransactions |-> seqTransactions, seqBudgets |-> seqBudgets,
     seqArchived |-> seqArchived, bornAt |-> bornAt,
     assets |-> assets, transactions |-> transactions, budgets |-> budgets,
     recentlyDeleted |-> recentlyDeleted, exportFile |-> exportFile,
     dbArchiveSettings |-> dbArchiveSettings, db |-> db,
     dbInitialized |-> dbInitialized, archiveSettings |-> archiveSettings,
     archivedTransactions |-> archivedTransactions, opens |-> opens,
     pc |-> pc, nOps |-> nOps, last |-> last]

Becomes(R) ==
    /\ dbAssets' = R.dbAssets
    /\ dbTransactions' = R.dbTransactions
    /\ dbBudgets' = R.dbBudgets
    /\ dbHistory' = R.dbHistory
    /\ dbArchived' = R.dbArchived
    /\ seqArchived' = R.seqArchived
    /\ bornAt' = R.bornAt
    /\ seqTransactions' = R.seqTransactions
    /\ seqBudgets' = R.seqBudgets
    /\ assets' = R.assets
    /\ transactions' = R.transactions
    /\ budgets' = R.budgets
    /\ recentlyDeleted' = R.recentlyDeleted
    /\ exportFile' = R.exportFile
    /\ dbArchiveSettings' = R.dbArchiveSettings
    /\ db' = R.db
    /\ dbInitialized' = R.dbInitialized
    /\ archiveSettings' = R.archiveSettings
    /\ archivedTransactions' = R.archivedTransactions
    /\ opens' = R.opens
    /\ pc' = R.pc
    /\ nOps' = R.nOps
    /\ last' = R.last

NoTx == [id |-> 0, type |-> "", amount |-> 0, category |-> "",
         description |-> "", location |-> "", date |-> 0]

(* What ran last: the operation, the transaction it was given (for Create the
   transaction it made) and what it returned *)
Op(name, tx, ret) == [op |-> name, tx |-> tx, ret |-> ret]

(* useState of archiveSettings *)
DefaultArchiveSettings ==
    [autoArchive |-> TRUE, archiveAfterMonths |-> archiveAfterMonths,
     keepRecentMonths |-> keepRecentMonths]

(* The row loadArchiveSettings inserts when the table has none *)
DefaultSettingsRow ==
    [id |-> 1, auto_archive |-> 1, archive_after_months |-> 12,
     keep_recent_months |-> 3]

(* The provider after setupDatabase has run on a store that holds the two
   assets and nothing else *)
Init ==
    /\ dbAssets = << [id |-> 1, name |-> "Wallet", amount |-> Baseline("Wallet")],
                     [id |-> 2, name |-> "Bank", amount |-> Baseline("Bank")] >>
    /\ dbTransactions = <<>>
    /\ dbBudgets = <<>>
    /\ dbHistory = <<>>
    /\ dbArchived = <<>>
    /\ seqArchived = 0
    /\ bornAt = <<>>
    /\ seqTransactions = 0
    /\ seqBudgets = 0
    /\ assets = sortAssetsByAmount(dbAssets)
    /\ transactions = <<>>
    /\ budgets = <<>>
    /\ recentlyDeleted = <<>>
    /\ exportFile = <<>>
    /\ dbArchiveSettings = <<DefaultSettingsRow>>
    /\ db = 1
    /\ dbInitialized = TRUE
    /\ archiveSettings = DefaultArchiveSettings
    /\ archivedTransactions = <<>>
    /\ opens = 1
    /\ pc = "idle"
    /\ nOps = 0
    /\ last = Op("init", NoTx, "none")

----------------------------------------------------------------------------
(* Budget writes *)

(* A run of `UPDATE budgets SET spent = ? WHERE id = ?`, one per record of
   calls, each carrying the new spent value *)
RECURSIVE RunSpentUpdates(_, _)
RunSpentUpdates(table, calls) ==
    IF calls = <<>> THEN table
    ELSE RunSpentUpdates(SetSpentWhereId(table, Head(calls).id, Head(calls).spent),
                         Tail(calls))

(* A run of updateBudget's UPDATE budgets SET category, amount, period, spent
   WHERE id, one per record of calls *)
RECURSIVE RunBudgetUpdates(_, _)
RunBudgetUpdates(table, calls) ==
    IF calls = <<>> THEN table
    ELSE RunBudgetUpdates(ReplaceById(table, Head(calls)), Tail(calls))

(* setBudgets(budgets.map(b => b.id === budget.id ? updated : b)) once per
   call, every call mapping over the budgets of the render: the last call
   decides the state *)
LastSetBudgets(rendered, calls) ==
    IF calls = <<>> THEN rendered ELSE ReplaceById(rendered, calls[Len(calls)])

(* The matching budgets of the render, each with spent moved by delta *)
SpentMoved(matching, delta) ==
    [i \in 1..Len(matching) |->
        [matching[i] EXCEPT !.spent = matching[i].spent + delta]]

(* The matching budgets of the render, each with spent lowered and floored *)
SpentLowered(matching, amount) ==
    [i \in 1..Len(matching) |->
        [matching[i] EXCEPT !.spent = FloorAtZero(matching[i].spent - amount)]]

----------------------------------------------------------------------------
(* addTransaction *)

validatedTransaction(transaction) ==
    [type |-> toLowerCase(transaction.type),
     amount |-> transaction.amount,
     category |-> transaction.category,
     description |-> transaction.description,
     location |-> transaction.location,
     date |-> transaction.date]

WithId(v, id) ==
    [id |-> id, type |-> v.type, amount |-> v.amount, category |-> v.category,
     description |-> v.description, location |-> v.location, date |-> v.date]

(* The amount of an asset after a transaction of the type is applied *)
Applied(amount, type, value) ==
    IF type = "income" THEN amount + value
    ELSE IF type = "expense" THEN amount - value
    ELSE amount

(* The store writes and the state updates of addTransaction's atomic unit *)
addTransactionWrites(S, transaction) ==
    LET v == validatedTransaction(transaction)
        id == S.seqTransactions + 1
        ai == IF v.location # "" THEN FindIndex(S.assets, "name", v.location) ELSE 0
        asset == S.assets[ai]
        newAmount == Applied(asset.amount, v.type, v.amount)
        matchingBudgets ==
            IF v.type = "expense" /\ v.category # ""
            THEN FilterBy(S.budgets, "category", v.category) ELSE <<>>
        calls == SpentMoved(matchingBudgets, v.amount)
    IN  [S EXCEPT
            !.dbTransactions = Append(S.dbTransactions, WithId(v, id)),
            !.seqTransactions = id,
            !.dbAssets = IF ai # 0 THEN SetAmountWhereId(S.dbAssets, asset.id, newAmount)
                         ELSE S.dbAssets,
            !.assets = IF ai # 0
                       THEN sortAssetsByAmount(
                                ReplaceById(S.assets, [asset EXCEPT !.amount = newAmount]))
                       ELSE S.assets,
            !.dbBudgets = RunSpentUpdates(S.dbBudgets, calls),
            !.budgets = LastSetBudgets(S.budgets, calls),
            !.transactions = <<WithId(v, id)>> \o S.transactions]

addTransaction(S, transaction) ==
    [addTransactionWrites(S, transaction) EXCEPT
        !.last = Op("add", WithId(validatedTransaction(transaction), S.seqTransactions + 1),
                    "undefined")]

----------------------------------------------------------------------------
(* updateTransaction *)

(* The amount of an asset after the effect of a transaction is taken back:
   updateTransaction treats every type but 'income' as an expense *)
Reversed(amount, type, value) ==
    IF type = "income" THEN amount - value ELSE amount + value

(* ... and after a transaction is applied, with the same two-way test *)
Reapplied(amount, type, value) ==
    IF type = "income" THEN amount + value ELSE amount - value

(* The updateAsset calls of updateTransaction, in order: each is an asset
   record of the render with its new amount *)
AssetCalls(rendered, original, transaction) ==
    LET oi == FindIndex(rendered, "name", original.location)
        ni == FindIndex(rendered, "name", transaction.location)
        reversedAmount == Reversed(rendered[oi].amount, original.type, original.amount)
    IN  IF ~ ( \/ original.location # transaction.location
               \/ original.amount # transaction.amount
               \/ original.type # transaction.type )
        THEN <<>>
        ELSE IF oi = 0 THEN <<>>
        ELSE IF original.location = transaction.location
        THEN << [rendered[oi] EXCEPT !.amount =
                    Reapplied(reversedAmount, transaction.type, transaction.amount)] >>
        ELSE << [rendered[oi] EXCEPT !.amount = reversedAmount] >>
             \o (IF ni = 0 THEN <<>>
                 ELSE << [rendered[ni] EXCEPT !.amount =
                            Reapplied(rendered[ni].amount, transaction.type,
                                      transaction.amount)] >>)

(* updateAsset's UPDATE assets SET name, amount, currency, image WHERE id,
   once per call *)
RECURSIVE RunAssetUpdates(_, _)
RunAssetUpdates(table, calls) ==
    IF calls = <<>> THEN table
    ELSE RunAssetUpdates(ReplaceById(table, Head(calls)), Tail(calls))

(* updateAsset's setAssets(sortAssetsByAmount(assets.map(...))), once per
   call over the assets of the render: the last call decides the state *)
LastSetAssets(rendered, calls) ==
    IF calls = <<>> THEN rendered
    ELSE sortAssetsByAmount(ReplaceById(rendered, calls[Len(calls)]))

(* The updateBudget calls of updateTransaction, in order *)
BudgetCalls(rendered, original, transaction) ==
    IF transaction.type # "expense" THEN <<>>
    ELSE IF original.category # transaction.category
    THEN SpentLowered(FilterBy(rendered, "category", original.category), original.amount)
         \o SpentMoved(FilterBy(rendered, "category", transaction.category),
                       transaction.amount)
    ELSE IF original.amount # transaction.amount
    THEN LET affected == FilterBy(rendered, "category", transaction.category)
         IN  [i \in 1..Len(affected) |->
                [affected[i] EXCEPT !.spent =
                    FloorAtZero(affected[i].spent
                                + (transaction.amount - original.amount))]]
    ELSE <<>>

updateTransaction(S, transaction) ==
    LET oi == FindIndex(S.transactions, "id", transaction.id)
        originalTransaction == S.transactions[oi]
        assetCalls ==
            IF oi = 0 THEN <<>> ELSE AssetCalls(S.assets, originalTransaction, transaction)
        budgetCalls ==
            IF oi = 0 THEN <<>> ELSE BudgetCalls(S.budgets, originalTransaction, transaction)
    IN  [S EXCEPT
            !.dbTransactions = ReplaceById(S.dbTransactions, transaction),
            !.transactions = ReplaceById(S.transactions, transaction),
            !.dbAssets = RunAssetUpdates(S.dbAssets, assetCalls),
            !.assets = LastSetAssets(S.assets, assetCalls),
            !.dbBudgets = RunBudgetUpdates(S.dbBudgets, budgetCalls),
            !.budgets = LastSetBudgets(S.budgets, budgetCalls),
            !.last = Op("update", transaction, "undefined")]

----------------------------------------------------------------------------
(* deleteTransaction, the undo buffer and undoDeleteTransaction *)

HistoryRow(id, action, data) == [transaction_id |-> id, action |-> action, data |-> data]

(* [transaction, ...recentlyDeleted] with no slice *)
addToRecentlyDeletedNoSlice(buffer, transaction) == <<transaction>> \o buffer

(* a delete that logs the id before it looks the transaction up *)
deleteTransactionLogsFirst(S, id) ==
    [S EXCEPT !.dbHistory = Append(S.dbHistory, HistoryRow(id, "delete", NoTx)),
              !.last = Op("delete", [NoTx EXCEPT !.id = id], "false")]

(* [transaction, ...recentlyDeleted.slice(0, 4)] *)
addToRecentlyDeleted(buffer, transaction) ==
    <<transaction>> \o SubSeq(buffer, 1, Min(4, Len(buffer)))

deleteTransaction(S, id) ==
    LET ti == FindIndex(S.transactions, "id", id)
        t == S.transactions[ti]
        ai == IF t.location # "" THEN FindIndex(S.assets, "name", t.location) ELSE 0
        asset == S.assets[ai]
        newAmount ==
            IF t.type = "income" THEN asset.amount - t.amount
            ELSE IF t.type = "expense" THEN asset.amount + t.amount
            ELSE asset.amount
        matchingBudgets ==
            IF t.type = "expense" /\ t.category # ""
            THEN FilterBy(S.budgets, "category", t.category) ELSE <<>>
        calls == SpentLowered(matchingBudgets, t.amount)
    IN  IF ti = 0
        THEN [S EXCEPT !.last = Op("delete", [NoTx EXCEPT !.id = id], "false")]
        ELSE [S EXCEPT
                !.dbAssets = IF ai # 0
                             THEN SetAmountWhereId(S.dbAssets, asset.id, newAmount)
                             ELSE S.dbAssets,
                !.assets = IF ai # 0
                           THEN sortAssetsByAmount(
                                    ReplaceById(S.assets, [asset EXCEPT !.amount = newAmount]))
                           ELSE S.assets,
                !.dbBudgets = RunSpentUpdates(S.dbBudgets, calls),
                !.budgets = LastSetBudgets(S.budgets, calls),
                !.dbHistory = Append(S.dbHistory, HistoryRow(id, "delete", t)),
                !.dbTransactions = RemoveById(S.dbTransactions, id),
                !.transactions = RemoveById(S.transactions, id),
                !.recentlyDeleted = addToRecentlyDeleted(S.recentlyDeleted, t),
                !.last = Op("delete", t, "true")]

undoDeleteTransaction(S, transaction) ==
    [addTransactionWrites(S, transaction) EXCEPT
        !.recentlyDeleted = RemoveById(S.recentlyDeleted, transaction.id),
        !.dbHistory = Append(S.dbHistory,
                             HistoryRow(transaction.id, "restore", transaction)),
        !.last = Op("undo", transaction, "true")]

----------------------------------------------------------------------------
(* addBudget *)

addBudget(S, budget) ==
    LET id == S.seqBudgets + 1
    IN  [S EXCEPT
            !.seqBudgets = id,
            !.bornAt = Append(S.bornAt, S.seqTransactions),
            !.dbBudgets = Append(S.dbBudgets,
                [id |-> id, category |-> budget.category, amount |-> budget.amount,
                 period |-> budget.period, spent |-> 0]),
            !.budgets = Append(S.budgets,
                [id |-> id, category |-> budget.category, amount |-> budget.amount,
                 period |-> budget.period, spent |-> budget.spent]),
            !.last = Op("addBudget", NoTx, "undefined")]

----------------------------------------------------------------------------
(* Loading the projections from the store *)

(* ORDER BY date DESC over the rows in rowid order *)
RECURSIVE InsertByDate(_, _)
InsertByDate(sorted, t) ==
    IF sorted = <<>> THEN <<t>>
    ELSE IF Head(sorted).date >= t.date
         THEN <<Head(sorted)>> \o InsertByDate(Tail(sorted), t)
         ELSE <<t>> \o sorted

RECURSIVE OrderByDateDesc(_)
OrderByDateDesc(rows) ==
    IF rows = <<>> THEN <<>>
    ELSE InsertByDate(OrderByDateDesc(SubSeq(rows, 1, Len(rows) - 1)), rows[Len(rows)])

(* SELECT * FROM transactions WHERE date >= ? *)
RECURSIVE WhereDateFrom(_, _)
WhereDateFrom(rows, from) ==
    IF rows = <<>> THEN <<>>
    ELSE IF Head(rows).date >= from THEN <<Head(rows)>> \o WhereDateFrom(Tail(rows), from)
         ELSE WhereDateFrom(Tail(rows), from)

(* SELECT * FROM transactions WHERE date < ? *)
RECURSIVE WhereDateBefore(_, _)
WhereDateBefore(rows, before) ==
    IF rows = <<>> THEN <<>>
    ELSE IF Head(rows).date < before
         THEN <<Head(rows)>> \o WhereDateBefore(Tail(rows), before)
         ELSE WhereDateBefore(Tail(rows), before)

ArchivedRow(id, t) ==
    [id |-> id, original_id |-> t.id, type |-> t.type, amount |-> t.amount,
     category |-> t.category, description |-> t.description,
     location |-> t.location, date |-> t.date, archived_date |-> Now]

(* INSERT INTO archived_transactions, one row per transaction *)
RECURSIVE InsertArchived(_, _, _)
InsertArchived(table, seq, rows) ==
    IF rows = <<>> THEN table
    ELSE InsertArchived(Append(table, ArchivedRow(seq + 1, Head(rows))), seq + 1, Tail(rows))

(* What the closures of one render see of the provider's React state *)
Render(S) ==
    [db |-> S.db, dbInitialized |-> S.dbInitialized,
     archiveSettings |-> S.archiveSettings]

(* autoArchiveOldTransactions as the closure of a render: safeDbOperation
   runs nothing when the render's db is null; otherwise the rows older than
   the render's archiveAfterMonths move to the archive in one atomic unit.
   Its closing loadTransactions() passes no database: `database || this.db`
   throws there (this is undefined in the module's arrow functions),
   loadTransactions catches it, and the React state stays as it was. *)
autoArchiveOldTransactionsIn(S, render) ==
    LET archiveDate == Now - render.archiveSettings.archiveAfterMonths
        transactionsToArchive == WhereDateBefore(S.dbTransactions, archiveDate)
    IN  IF render.db = 0 THEN S
        ELSE IF transactionsToArchive = <<>> THEN S
        ELSE [S EXCEPT
                !.dbArchived = InsertArchived(S.dbArchived, S.seqArchived,
                                              transactionsToArchive),
                !.seqArchived = S.seqArchived + Len(transactionsToArchive),
                !.dbTransactions = WhereDateFrom(S.dbTransactions, archiveDate)]

(* called from the render that is current *)
autoArchiveOldTransactions(S) == autoArchiveOldTransactionsIn(S, Render(S))

(* loadTransactions(database) as the closure of a render: the window of the
   render's keepRecentMonths into the React state, then the auto-archive
   when the render's archiveSettings.autoArchive is set *)
loadTransactionsIn(S, render) ==
    LET cutoffDate == Now - render.archiveSettings.keepRecentMonths
        result == OrderByDateDesc(WhereDateFrom(S.dbTransactions, cutoffDate))
        loaded == [S EXCEPT !.transactions = result]
    IN  IF render.archiveSettings.autoArchive
        THEN autoArchiveOldTransactionsIn(loaded, render)
        ELSE loaded

(* the context's loadTransactions: () => db && loadTransactions(db) *)
loadTransactions(S) == IF S.db = 0 THEN S ELSE loadTransactionsIn(S, Render(S))

loadAssets(S) == [S EXCEPT !.assets = sortAssetsByAmount(S.dbAssets)]

loadBudgets(S) == [S EXCEPT !.budgets = S.dbBudgets]

----------------------------------------------------------------------------
(* A reload call by call.  Each call of the chain is the last statement of
   its caller, so the call that runs is all there is to remember. *)

(* an archive pass that goes on to reload whatever it found, with the
   database handed on *)
NextCallAlwaysReloads(transactionsToArchive) == "loadTransactions(db)"

(* autoArchiveOldTransactions: `if (transactionsToArchive.length === 0)
   return;`, otherwise the closing `await loadTransactions()` *)
NextCall(transactionsToArchive) ==
    IF transactionsToArchive = <<>> THEN "idle" ELSE "loadTransactions()"

(* One call of the chain, run up to the call it makes or to its return *)
stepReload(S) ==
    CASE S.pc = "loadTransactions(db)" ->
            LET cutoffDate == Now - S.archiveSettings.keepRecentMonths
                result == OrderByDateDesc(WhereDateFrom(S.dbTransactions, cutoffDate))
            IN  [S EXCEPT !.transactions = result,
                          !.pc = IF S.archiveSettings.autoArchive
                                 THEN "autoArchiveOldTransactions" ELSE "idle"]
      [] S.pc = "autoArchiveOldTransactions" ->
            LET archiveDate == Now - S.archiveSettings.archiveAfterMonths
                transactionsToArchive == WhereDateBefore(S.dbTransactions, archiveDate)
            IN  IF S.db = 0 THEN [S EXCEPT !.pc = "idle"]
                ELSE [autoArchiveOldTransactions(S) EXCEPT
                        !.pc = NextCall(transactionsToArchive)]
      [] S.pc = "loadTransactions()" -> [S EXCEPT !.pc = "idle"]
      [] OTHER -> S

(* the context's loadTransactions is called: () => db && loadTransactions(db) *)
beginReload(S) ==
    IF S.db = 0 THEN [S EXCEPT !.last = Op("reload", NoTx, "undefined")]
    ELSE [S EXCEPT !.pc = "loadTransactions(db)",
                   !.last = Op("reload", NoTx, "undefined")]

----------------------------------------------------------------------------
(* exportData and importData (SettingsScreen) *)

(* The JSON document: the React state of the three collections *)
ExportDocument(S) ==
    [assets |-> S.assets, transactions |-> S.transactions, budgets |-> S.budgets]

exportData(S) ==
    [S EXCEPT !.exportFile = ExportDocument(S), !.last = Op("export", NoTx, "undefined")]

(* DELETE FROM the three tables, reset their sqlite_sequence rows, reload *)
clearAllData(S) ==
    loadBudgets(loadTransactions(loadAssets(
        [S EXCEPT !.dbAssets = <<>>, !.dbTransactions = <<>>, !.dbBudgets = <<>>,
                  !.seqTransactions = 0, !.seqBudgets = 0, !.bornAt = <<>>])))

(* INSERT INTO assets (name, amount, currency, image), in document order;
   the assets table's own sequence is the length of the table here *)
ImportedAssets(doc) ==
    [i \in 1..Len(doc.assets) |->
        [id |-> i, name |-> doc.assets[i].name, amount |-> doc.assets[i].amount]]

ImportedTransactions(doc) ==
    [i \in 1..Len(doc.transactions) |-> WithId(doc.transactions[i], i)]

ImportedBudgets(doc) ==
    [i \in 1..Len(doc.budgets) |->
        [id |-> i, category |-> doc.budgets[i].category,
         amount |-> doc.budgets[i].amount, period |-> doc.budgets[i].period,
         spent |-> doc.budgets[i].spent]]

importData(S, doc) ==
    LET C == clearAllData(S)
        I == [C EXCEPT
                !.dbAssets = ImportedAssets(doc),
                !.dbTransactions = ImportedTransactions(doc),
                !.seqTransactions = Len(doc.transactions),
                !.dbBudgets = ImportedBudgets(doc),
                !.seqBudgets = Len(doc.budgets),
                !.bornAt = [i \in 1..Len(doc.budgets) |-> Len(doc.transactions)]]
    IN  [loadBudgets(loadTransactions(loadAssets(I))) EXCEPT
            !.last = Op("import", NoTx, "undefined")]

(* A screen mounts and reloads the active transactions *)
reloadTransactions(S) ==
    [loadTransactions(S) EXCEPT !.last = Op("reload", NoTx, "undefined")]

(* handleDeleteAllData: "Delete All Data" of the settings screen *)
handleDeleteAllData(S) ==
    [clearAllData(S) EXCEPT !.last = Op("clear", NoTx, "true")]

----------------------------------------------------------------------------
(* Operations in which one store write fails.  failAt is the position of the
   failing write among the writes the operation would run, in program order.
   Inside db.withTransactionAsync the failure rolls every write of the unit
   back; the setX calls that ran before it have been made all the same. *)

(* The first n elements of s *)
Take(s, n) == SubSeq(s, 1, Min(n, Len(s)))

(* s without its i-th element *)
DropAt(s, i) == [j \in 1..(Len(s) - (IF i \in 1..Len(s) THEN 1 ELSE 0)) |->
                    IF j < i \/ i < 1 THEN s[j] ELSE s[j + 1]]

(* addTransaction's writes: the INSERT, the asset UPDATE when the location
   resolves, one budget UPDATE per matching budget *)
addTransactionWriteCount(S, transaction) ==
    LET v == validatedTransaction(transaction)
        ai == IF v.location # "" THEN FindIndex(S.assets, "name", v.location) ELSE 0
        matchingBudgets ==
            IF v.type = "expense" /\ v.category # ""
            THEN FilterBy(S.budgets, "category", v.category) ELSE <<>>
    IN  1 + (IF ai # 0 THEN 1 ELSE 0) + Len(matchingBudgets)

(* The atomic unit of addTransaction aborted at write failAt: the store is
   rolled back; setAssets and the setBudgets of the writes before failAt have
   run; setTransactions has not *)
addTransactionAborted(S, transaction, failAt) ==
    LET v == validatedTransaction(transaction)
        ai == IF v.location # "" THEN FindIndex(S.assets, "name", v.location) ELSE 0
        asset == S.assets[ai]
        newAmount == Applied(asset.amount, v.type, v.amount)
        nAsset == IF ai # 0 THEN 1 ELSE 0
        matchingBudgets ==
            IF v.type = "expense" /\ v.category # ""
            THEN FilterBy(S.budgets, "category", v.category) ELSE <<>>
        calls == Take(SpentMoved(matchingBudgets, v.amount), failAt - 2 - nAsset)
    IN  [S EXCEPT
            !.assets = IF ai # 0 /\ failAt > 2
                       THEN sortAssetsByAmount(
                                ReplaceById(S.assets, [asset EXCEPT !.amount = newAmount]))
                       ELSE S.assets,
            !.budgets = LastSetBudgets(S.budgets, calls)]

(* addTransaction with a failing write: the error reaches safeDbOperation,
   which logs it and returns null *)
addTransactionFailing(S, transaction, failAt) ==
    [addTransactionAborted(S, transaction, failAt) EXCEPT
        !.last = Op("add", WithId(validatedTransaction(transaction), 0), "null")]

(* deleteTransaction's writes: the asset UPDATE when the location resolves,
   one budget UPDATE per matching budget, the History INSERT, the DELETE *)
deleteTransactionWriteCount(S, id) ==
    LET t == S.transactions[FindIndex(S.transactions, "id", id)]
        ai == IF t.location # "" THEN FindIndex(S.assets, "name", t.location) ELSE 0
        matchingBudgets ==
            IF t.type = "expense" /\ t.category # ""
            THEN FilterBy(S.budgets, "category", t.category) ELSE <<>>
    IN  (IF ai # 0 THEN 1 ELSE 0) + Len(matchingBudgets) + 2

(* deleteTransaction of an active id with a failing write: the unit is rolled
   back, the catch returns false; setTransactions and addToRecentlyDeleted
   are not reached *)
deleteTransactionFailing(S, id, failAt) ==
    LET t == S.transactions[FindIndex(S.transactions, "id", id)]
        ai == IF t.location # "" THEN FindIndex(S.assets, "name", t.location) ELSE 0
        asset == S.assets[ai]
        newAmount ==
            IF t.type = "income" THEN asset.amount - t.amount
            ELSE IF t.type = "expense" THEN asset.amount + t.amount
            ELSE asset.amount
        nAsset == IF ai # 0 THEN 1 ELSE 0
        matchingBudgets ==
            IF t.type = "expense" /\ t.category # ""
            THEN FilterBy(S.budgets, "category", t.category) ELSE <<>>
        calls == Take(SpentLowered(matchingBudgets, t.amount), failAt - 1 - nAsset)
    IN  [S EXCEPT
            !.assets = IF ai # 0 /\ failAt > 1
                       THEN sortAssetsByAmount(
                                ReplaceById(S.assets, [asset EXCEPT !.amount = newAmount]))
                       ELSE S.assets,
            !.budgets = LastSetBudgets(S.budgets, calls),
            !.last = Op("delete", t, "false")]

(* updateTransaction's writes: the UPDATE of the row, then one UPDATE per
   updateAsset call and per updateBudget call *)
updateTransactionWriteCount(S, transaction) ==
    LET oi == FindIndex(S.transactions, "id", transaction.id)
    IN  IF oi = 0 THEN 1
        ELSE 1 + Len(AssetCalls(S.assets, S.transactions[oi], transaction))
               + Len(BudgetCalls(S.budgets, S.transactions[oi], transaction))

(* updateTransaction with a failing write.  There is no atomic unit: when
   the UPDATE of the row fails the catch ends the operation; a failing write
   of updateAsset or updateBudget is caught inside that call (safeDbOperation,
   try/catch), its setX is skipped and the operation goes on. *)
updateTransactionFailing(S, transaction, failAt) ==
    LET oi == FindIndex(S.transactions, "id", transaction.id)
        originalTransaction == S.transactions[oi]
        allAssetCalls ==
            IF oi = 0 THEN <<>> ELSE AssetCalls(S.assets, originalTransaction, transaction)
        allBudgetCalls ==
            IF oi = 0 THEN <<>> ELSE BudgetCalls(S.budgets, originalTransaction, transaction)
        assetCalls == DropAt(allAssetCalls, failAt - 1)
        budgetCalls == DropAt(allBudgetCalls, failAt - 1 - Len(allAssetCalls))
    IN  IF failAt = 1
        THEN [S EXCEPT !.last = Op("update", transaction, "undefined")]
        ELSE [S EXCEPT
                !.dbTransactions = ReplaceById(S.dbTransactions, transaction),
                !.transactions = ReplaceById(S.transactions, transaction),
                !.dbAssets = RunAssetUpdates(S.dbAssets, assetCalls),
                !.assets = LastSetAssets(S.assets, assetCalls),
                !.dbBudgets = RunBudgetUpdates(S.dbBudgets, budgetCalls),
                !.budgets = LastSetBudgets(S.budgets, budgetCalls),
                !.last = Op("update", transaction, "undefined")]

(* undoDeleteTransaction's writes: those of addTransaction, then the History
   INSERT *)
undoDeleteTransactionWriteCount(S, transaction) ==
    addTransactionWriteCount(S, transaction) + 1

(* undoDeleteTransaction with a failing write.  A failure inside
   addTransaction is swallowed there (it returns null): the undo goes on,
   empties the buffer entry, writes the 'restore' record and returns true.
   A failing History INSERT comes after addTransaction has committed and
   after setRecentlyDeleted: the catch returns false. *)
undoDeleteTransactionFailing(S, transaction, failAt) ==
    IF failAt <= addTransactionWriteCount(S, transaction)
    THEN [addTransactionAborted(S, transaction, failAt) EXCEPT
            !.recentlyDeleted = RemoveById(S.recentlyDeleted, transaction.id),
            !.dbHistory = Append(S.dbHistory,
                                 HistoryRow(transaction.id, "restore", transaction)),
            !.last = Op("undo", transaction, "true")]
    ELSE [addTransactionWrites(S, transaction) EXCEPT
            !.recentlyDeleted = RemoveById(S.recentlyDeleted, transaction.id),
            !.last = Op("undo", transaction, "false")]

(* autoArchiveOldTransactions with a failing write: the INSERTs and the
   DELETE are one atomic unit, rolled back; safeDbOperation returns null *)
autoArchiveOldTransactionsFailing(S) ==
    [S EXCEPT !.last = Op("archive", NoTx, "null")]

----------------------------------------------------------------------------
(* TransactionForm.handleSave for a new transaction: the form's amount is the
   text of the input field *)

(* parseFloat on the texts that occur: the number, or NaN *)
parseFloat(text) ==
    CASE text = "30" -> [isNaN |-> FALSE, value |-> 30]
      [] text = "50" -> [isNaN |-> FALSE, value |-> 50]
      [] text = "0" -> [isNaN |-> FALSE, value |-> 0]
      [] text = "-30" -> [isNaN |-> FALSE, value |-> 0 - 30]
      [] OTHER -> [isNaN |-> TRUE, value |-> 0]

(* What the form hands to onSave; addTransaction's parseFloat(amount) || 0
   turns a NaN into 0 *)
transactionData(form) ==
    [type |-> toLowerCase(form.type), amount |-> parseFloat(form.amount).value,
     category |-> form.category, description |-> form.description,
     location |-> form.location, date |-> form.date]

(* The alert of a rejected form; the rejected amount text is kept in the
   description of the record of the last operation *)
Alerted(S, form) ==
    [S EXCEPT !.last = Op("save", [NoTx EXCEPT !.description = form.amount], "alert")]

(* a form that saves whatever was typed *)
handleSaveUnvalidated(S, form) == addTransaction(S, transactionData(form))

(* handleSave, then handleSaveTransaction -> addTransaction *)
handleSave(S, form) ==
    IF \/ form.amount = ""
       \/ parseFloat(form.amount).isNaN
       \/ parseFloat(form.amount).value <= 0
    THEN Alerted(S, form)
    ELSE IF form.category = "" THEN Alerted(S, form)
    ELSE IF form.location = "" THEN Alerted(S, form)
    ELSE addTransaction(S, transactionData(form))

----------------------------------------------------------------------------
(* The archive settings and the launch of the app *)

(* Boolean(settings.auto_archive) *)
Boolean(n) == n # 0

(* loadArchiveSettings(database): the stored row into the React state, or
   the default row into the table when there is none *)
loadArchiveSettings(S) ==
    IF S.dbArchiveSettings # <<>>
    THEN LET settings == S.dbArchiveSettings[1]
         IN  [S EXCEPT !.archiveSettings =
                [autoArchive |-> Boolean(settings.auto_archive),
                 archiveAfterMonths |-> settings.archive_after_months,
                 keepRecentMonths |-> settings.keep_recent_months]]
    ELSE [S EXCEPT !.dbArchiveSettings = <<DefaultSettingsRow>>]

(* UPDATE archive_settings SET ... WHERE id = 1 *)
SetSettingsWhereId1(table, newSettings) ==
    [i \in 1..Len(table) |->
        IF table[i].id = 1
        THEN [id |-> 1,
              auto_archive |-> IF newSettings.autoArchive THEN 1 ELSE 0,
              archive_after_months |-> newSettings.archiveAfterMonths,
              keep_recent_months |-> newSettings.keepRecentMonths]
        ELSE table[i]]

updateArchiveSettings(S, newSettings) ==
    IF S.db = 0 THEN [S EXCEPT !.last = Op("settings", NoTx, "null")]
    ELSE [S EXCEPT
            !.dbArchiveSettings = SetSettingsWhereId1(S.dbArchiveSettings, newSettings),
            !.archiveSettings = newSettings,
            !.last = Op("settings", NoTx, "undefined")]

(* SettingsScreen: the auto-archive switch and the period picker *)
toggleAutoArchive(S) ==
    updateArchiveSettings(S,
        [S.archiveSettings EXCEPT !.autoArchive = ~S.archiveSettings.autoArchive])

updateArchivePeriod(S, months) ==
    updateArchiveSettings(S, [S.archiveSettings EXCEPT !.archiveAfterMonths = months])

(* The provider as it mounts: every useState at its initial value, the store
   and the exported file as they are on the device *)
Mounted(S) ==
    [S EXCEPT !.db = 0, !.dbInitialized = FALSE, !.assets = <<>>,
              !.transactions = <<>>, !.budgets = <<>>, !.recentlyDeleted = <<>>,
              !.archivedTransactions = <<>>,
              !.archiveSettings = DefaultArchiveSettings]

(* setupDatabase, run by the effect of the first render: the functions it
   calls are the closures of that render, in which db is null,
   dbInitialized is false and archiveSettings holds the defaults *)
setupDatabase(S) ==
    LET first == Render(Mounted(S))
        opened == [Mounted(S) EXCEPT !.db = S.opens + 1, !.opens = S.opens + 1]
        ready == [loadArchiveSettings(opened) EXCEPT !.dbInitialized = TRUE]
    IN  [loadBudgets(loadTransactionsIn(loadAssets(ready), first)) EXCEPT
            !.last = Op("launch", NoTx, "undefined")]

----------------------------------------------------------------------------
(* The archive: manual archiving, restore, search *)

(* What an operation returned when it returned a number *)
OpCount(name, count) == [op |-> name, tx |-> NoTx, ret |-> "count", count |-> count]

(* SettingsScreen.triggerManualArchive, once confirmed *)
triggerManualArchive(S) ==
    [autoArchiveOldTransactions(S) EXCEPT !.last = Op("manualArchive", NoTx, "undefined")]

(* SELECT * FROM transactions WHERE date >= ? AND date <= ? *)
RECURSIVE WhereDateBetween(_, _, _)
WhereDateBetween(rows, startDate, endDate) ==
    IF rows = <<>> THEN <<>>
    ELSE IF Head(rows).date >= startDate /\ Head(rows).date <= endDate
         THEN <<Head(rows)>> \o WhereDateBetween(Tail(rows), startDate, endDate)
         ELSE WhereDateBetween(Tail(rows), startDate, endDate)

(* a DELETE that forgets the upper end of the range *)
RECURSIVE DeleteDateFrom(_, _, _)
DeleteDateFrom(rows, startDate, endDate) ==
    IF rows = <<>> THEN <<>>
    ELSE IF Head(rows).date >= startDate
         THEN DeleteDateFrom(Tail(rows), startDate, endDate)
         ELSE <<Head(rows)>> \o DeleteDateFrom(Tail(rows), startDate, endDate)

(* DELETE FROM transactions WHERE date >= ? AND date <= ?: the rows it leaves *)
RECURSIVE DeleteDateBetween(_, _, _)
DeleteDateBetween(rows, startDate, endDate) ==
    IF rows = <<>> THEN <<>>
    ELSE IF Head(rows).date >= startDate /\ Head(rows).date <= endDate
         THEN DeleteDateBetween(Tail(rows), startDate, endDate)
         ELSE <<Head(rows)>> \o DeleteDateBetween(Tail(rows), startDate, endDate)

(* archiveTransactionsByDateRange: the rows of the range move to the archive
   in one atomic unit; the closing loadTransactions() has no database and
   leaves the React state as it was *)
archiveTransactionsByDateRange(S, startDate, endDate) ==
    LET transactionsToArchive == WhereDateBetween(S.dbTransactions, startDate, endDate)
    IN  IF S.db = 0 THEN [S EXCEPT !.last = Op("archiveRange", NoTx, "null")]
        ELSE IF transactionsToArchive = <<>>
        THEN [S EXCEPT !.last = OpCount("archiveRange", 0)]
        ELSE [S EXCEPT
                !.dbArchived = InsertArchived(S.dbArchived, S.seqArchived,
                                              transactionsToArchive),
                !.seqArchived = S.seqArchived + Len(transactionsToArchive),
                !.dbTransactions = DeleteDateBetween(S.dbTransactions, startDate, endDate),
                !.last = OpCount("archiveRange", Len(transactionsToArchive))]

(* loadArchivedTransactions(): page 0 of the archive, newest first *)
loadArchivedTransactions(S) ==
    IF S.db = 0 THEN S
    ELSE [S EXCEPT !.archivedTransactions = Take(OrderByDateDesc(S.dbArchived), 50)]

(* restoreArchivedTransaction: the archived row is inserted into
   transactions under the next rowid and deleted from the archive, in one
   atomic unit; no asset and no budget is written; loadTransactions() has no
   database, loadArchivedTransactions() reloads the archive page *)
restoreArchivedTransaction(S, archivedId) ==
    LET i == FindIndex(S.dbArchived, "id", archivedId)
        transaction == S.dbArchived[i]
        id == S.seqTransactions + 1
        row == [id |-> id, type |-> transaction.type, amount |-> transaction.amount,
                category |-> transaction.category,
                description |-> transaction.description,
                location |-> transaction.location, date |-> transaction.date]
    IN  IF S.db = 0 THEN [S EXCEPT !.last = Op("restoreArchived", NoTx, "null")]
        ELSE IF i = 0 THEN [S EXCEPT !.last = Op("restoreArchived", NoTx, "false")]
        ELSE [loadArchivedTransactions(
                [S EXCEPT !.dbTransactions = Append(S.dbTransactions, row),
                          !.seqTransactions = id,
                          !.dbArchived = RemoveById(S.dbArchived, archivedId)])
              EXCEPT !.last = Op("restoreArchived", row, "true")]

(* text LIKE '%term%' (SQLite: containment, letters compared without case),
   on the texts and the search terms of the model *)
Like(text, term) ==
    <<text, term>> \in {<<"Food", "oo">>, <<"Wallet", "WAL">>, <<"Wallet", "a">>,
                        <<"Transport", "a">>, <<"Bank", "a">>}

(* SELECT *, <source> as source FROM <table>
   WHERE category LIKE ? OR description LIKE ? OR location LIKE ?
   ORDER BY date DESC *)
RECURSIVE WhereLike(_, _)
WhereLike(rows, term) ==
    IF rows = <<>> THEN <<>>
    ELSE IF \/ Like(Head(rows).category, term)
            \/ Like(Head(rows).description, term)
            \/ Like(Head(rows).location, term)
         THEN <<Head(rows)>> \o WhereLike(Tail(rows), term)
         ELSE WhereLike(Tail(rows), term)

SelectWithSource(rows, term, source) ==
    LET found == OrderByDateDesc(WhereLike(rows, term))
    IN  [i \in 1..Len(found) |-> [source |-> source] @@ found[i]]

(* searchAllTransactions: what it resolves to *)
searchAllTransactions(S, searchTerm, includeArchived) ==
    LET activeResults == SelectWithSource(S.dbTransactions, searchTerm, "active")
        archivedResults == SelectWithSource(S.dbArchived, searchTerm, "archived")
    IN  IF ~includeArchived THEN activeResults
        ELSE activeResults \o archivedResults

----------------------------------------------------------------------------
(* Budget periods.  Dates are whole months: a row dated Now is of the
   current week and month, and the current year began keepRecentMonths + 2
   months ago (now is in its sixth month). *)

YearStart == Now - (keepRecentMonths + 2)

getStartDateForPeriod(period) ==
    CASE period = "Weekly" -> Now
      [] period = "Monthly" -> Now
      [] period = "Yearly" -> YearStart
      [] OTHER -> 0

(* transactions.filter(expense of the category since startDate)
               .reduce((sum, t) => sum + parseFloat(t.amount), 0) *)
RECURSIVE expensesInCategory(_, _, _)
expensesInCategory(rows, category, startDate) ==
    IF rows = <<>> THEN 0
    ELSE (IF /\ Head(rows).type = "expense"
             /\ Head(rows).category = category
             /\ Head(rows).date >= startDate
          THEN Head(rows).amount ELSE 0)
         + expensesInCategory(Tail(rows), category, startDate)

(* getBudgetRemaining reads the React state of the render *)
getBudgetRemaining(S, budgetId) ==
    LET i == FindIndex(S.budgets, "id", budgetId)
        budget == S.budgets[i]
    IN  IF i = 0 THEN 0
        ELSE budget.amount
             - expensesInCategory(S.transactions, budget.category,
                                  getStartDateForPeriod(budget.period))

----------------------------------------------------------------------------
(* safeDbOperation with an operation that throws *)

(* error.message of the errors the store throws here *)
ErrorMessages ==
    {"java.lang.NullPointerException", "database not opened", "UNIQUE constraint failed"}

(* String.prototype.includes on these messages *)
includes(message, text) ==
    <<message, text>> \in {<<"java.lang.NullPointerException", "NullPointerException">>,
                           <<"database not opened", "not opened">>}

(* What a failed operation returned, and the error it was caught with *)
OpFailed(name, message) ==
    [op |-> name, tx |-> NoTx, ret |-> "null", error |-> message]

(* a handler that tries to reconnect whatever the error is *)
safeDbOperationReconnectsOnAny(S, done, message, reconnected) ==
    IF S.db = 0 THEN [S EXCEPT !.last = Op(done.last.op, NoTx, "null")]
    ELSE IF message = "" THEN done
    ELSE IF S.dbInitialized
         THEN [S EXCEPT !.opens = S.opens + 1,
                        !.db = IF reconnected THEN S.opens + 1 ELSE S.db,
                        !.last = OpFailed(done.last.op, message)]
         ELSE [S EXCEPT !.last = OpFailed(done.last.op, message)]

(* safeDbOperation(operation, errorMessage) around an operation that changes
   nothing when it throws (one write, or one atomic unit): `done` is the
   state the operation leads to when it does not throw, message the message
   of the error it throws ("" = none), reconnected whether the
   openDatabaseAsync of the handler succeeds *)
safeDbOperation(S, done, message, reconnected) ==
    IF S.db = 0 THEN [S EXCEPT !.last = Op(done.last.op, NoTx, "null")]
    ELSE IF message = "" THEN done
    ELSE IF /\ S.dbInitialized
            /\ \/ includes(message, "NullPointerException")
               \/ includes(message, "not opened")
         THEN [S EXCEPT !.opens = S.opens + 1,
                        !.db = IF reconnected THEN S.opens + 1 ELSE S.db,
                        !.last = OpFailed(done.last.op, message)]
         ELSE [S EXCEPT !.last = OpFailed(done.last.op, message)]

(* updateArchiveSettings whose UPDATE throws *)
updateArchiveSettingsFailing(S, newSettings, message, reconnected) ==
    safeDbOperation(S, updateArchiveSettings(S, newSettings), message, reconnected)

(* the manual archive whose SELECT, or whose atomic unit, throws *)
triggerManualArchiveFailing(S, message, reconnected) ==
    safeDbOperation(S, triggerManualArchive(S), message, reconnected)

----------------------------------------------------------------------------
(* Inputs *)

TxInputs(types, amounts, categories, locations, dates) ==
    [type : types, amount : amounts, category : categories, description : {""},
     location : locations, date : dates]

(* The edit form keeps the identity, the description and the date *)
EditInputs(t, amounts, categories, locations) ==
    [id : {t.id}, type : StoredTypes, amount : amounts, category : categories,
     description : {t.description}, location : locations, date : {t.date}]

BudgetInputs ==
    [category : Categories, amount : BudgetAmounts, period : Periods, spent : {0}]

----------------------------------------------------------------------------
(* The ledger: Create, Update, Delete, Restore/Undo, one operation run to
   completion before the next.  Spec moves transactions between the assets
   (one category, no budgets). *)

(* One operation, counted *)
Run(R) == nOps < MaxOps /\ Becomes([R EXCEPT !.nOps = nOps + 1])

Create(inputs) ==
    \E transaction \in inputs : Run(addTransaction(State, transaction))

Update(amounts, categories, locations) ==
    \E i \in 1..Len(transactions) :
        \E transaction \in EditInputs(transactions[i], amounts, categories, locations) :
            Run(updateTransaction(State, transaction))

Delete == \E i \in 1..Len(transactions) : Run(deleteTransaction(State, transactions[i].id))

Undo ==
    \E i \in 1..Len(recentlyDeleted) : Run(undoDeleteTransaction(State, recentlyDeleted[i]))

CreateBudget == \E budget \in BudgetInputs : Run(addBudget(State, budget))

CreateOnAssets == Create(TxInputs(InputTypes, Amounts, {"Food"}, Locations, RecentDates))
UpdateOnAssets == Update(Amounts, {"Food"}, Locations)

Next == CreateOnAssets \/ UpdateOnAssets \/ Delete \/ Undo

Spec == Init /\ [][Next]_vars

(* SpecBudget keeps every transaction on one asset and moves it between the
   categories of the budgets. *)

CreateInCategories == Create(TxInputs(InputTypes, Amounts, Categories, {"Wallet"}, RecentDates))
UpdateInCategories == Update(Amounts, Categories, {"Wallet"})

NextBudget == CreateInCategories \/ UpdateInCategories \/ Delete \/ Undo \/ CreateBudget

SpecBudget == Init /\ [][NextBudget]_vars

(* SpecExport: transactions of any age on one asset, reloads of the active
   set, and the export / import of SettingsScreen. *)

CreateDated == Create(TxInputs({"expense"}, {30}, {"Food"}, {"Wallet"}, AllDates))
Reload == Run(reloadTransactions(State))
Export == Run(exportData(State))
Import == exportFile # <<>> /\ Run(importData(State, exportFile))

NextExport == CreateDated \/ CreateBudget \/ Delete \/ Reload \/ Export \/ Import

SpecExport == Init /\ [][NextExport]_vars

----------------------------------------------------------------------------
(* SpecBuffer: the Undo Buffer.  The ledger starts with SeedSize active
   transactions (SeedSize Creates after construction), and then runs Deletes
   of active ids, Deletes of ids that are not active, and Undos. *)

MaxBufferOps == 7
SeedSize == 6

Constructed ==
    [dbAssets |-> << [id |-> 1, name |-> "Wallet", amount |-> Baseline("Wallet")],
                     [id |-> 2, name |-> "Bank", amount |-> Baseline("Bank")] >>,
     dbTransactions |-> <<>>, dbBudgets |-> <<>>, dbHistory |-> <<>>,
     dbArchived |-> <<>>, seqTransactions |-> 0, seqBudgets |-> 0,
     seqArchived |-> 0, bornAt |-> <<>>,
     assets |-> sortAssetsByAmount(
                    << [id |-> 1, name |-> "Wallet", amount |-> Baseline("Wallet")],
                       [id |-> 2, name |-> "Bank", amount |-> Baseline("Bank")] >>),
     transactions |-> <<>>, budgets |-> <<>>, recentlyDeleted |-> <<>>,
     exportFile |-> <<>>, dbArchiveSettings |-> <<DefaultSettingsRow>>,
     db |-> 1, dbInitialized |-> TRUE, archiveSettings |-> DefaultArchiveSettings,
     archivedTransactions |-> <<>>, opens |-> 1, pc |-> "idle",
     nOps |-> 0, last |-> Op("init", NoTx, "none")]

SeedInput ==
    [type |-> "income", amount |-> 30, category |-> "Food", description |-> "",
     location |-> "Wallet", date |-> Now]

RECURSIVE Seeded(_)
Seeded(n) == IF n = 0 THEN Constructed ELSE addTransaction(Seeded(n - 1), SeedInput)

StartsAs(R) ==
    /\ dbAssets = R.dbAssets
    /\ dbTransactions = R.dbTransactions
    /\ dbBudgets = R.dbBudgets
    /\ dbHistory = R.dbHistory
    /\ dbArchived = R.dbArchived
    /\ seqArchived = R.seqArchived
    /\ bornAt = R.bornAt
    /\ seqTransactions = R.seqTransactions
    /\ seqBudgets = R.seqBudgets
    /\ assets = R.assets
    /\ transactions = R.transactions
    /\ budgets = R.budgets
    /\ recentlyDeleted = R.recentlyDeleted
    /\ exportFile = R.exportFile
    /\ dbArchiveSettings = R.dbArchiveSettings
    /\ db = R.db
    /\ dbInitialized = R.dbInitialized
    /\ archiveSettings = R.archiveSettings
    /\ archivedTransactions = R.archivedTransactions
    /\ opens = R.opens
    /\ pc = R.pc
    /\ nOps = R.nOps
    /\ last = R.last

InitBuffer == StartsAs(Seeded(SeedSize))

RunBuffer(R) == nOps < MaxBufferOps /\ Becomes([R EXCEPT !.nOps = nOps + 1])

ActiveIds == {transactions[i].id : i \in 1..Len(transactions)}

(* Ends(s): the positions of the first and the last element of s *)
Ends(s) == IF s = <<>> THEN {} ELSE {1, Len(s)}

(* the newest or the oldest active transaction *)
DeleteActive ==
    \E i \in Ends(transactions) : RunBuffer(deleteTransaction(State, transactions[i].id))

(* an id the store has never given out, or the id of the last deleted one *)
DeleteAbsent ==
    \E id \in ({seqTransactions + 1}
                \cup {recentlyDeleted[i].id : i \in Ends(recentlyDeleted) \cap {1}})
              \ ActiveIds :
        RunBuffer(deleteTransaction(State, id))

(* the newest or the oldest entry of the buffer *)
UndoBuffered ==
    \E i \in Ends(recentlyDeleted) :
        RunBuffer(undoDeleteTransaction(State, recentlyDeleted[i]))

NextBuffer == DeleteActive \/ DeleteAbsent \/ UndoBuffered

SpecBuffer == InitBuffer /\ [][NextBuffer]_vars

----------------------------------------------------------------------------
(* SpecRestore: Creates on one asset, Deletes, Undos of any entry of the
   buffer, and "Delete All Data" of the settings screen, which empties the
   three tables and resets their sqlite_sequence rows. *)

CreateOnWallet ==
    Create(TxInputs(StoredTypes, {30}, {"Food"}, {"Wallet"}, RecentDates))
ClearAll == Run(handleDeleteAllData(State))

NextRestore == CreateOnWallet \/ Delete \/ Undo \/ ClearAll

SpecRestore == Init /\ [][NextRestore]_vars

----------------------------------------------------------------------------
(* SpecFailure: expenses on the two assets against budgets, where any
   operation may have one of its store writes fail. *)

FailureInputs == TxInputs({"expense"}, {30}, {"Food"}, AssetNames, RecentDates)

CreateExpense == Create(FailureInputs)

CreateFoodBudget ==
    Run(addBudget(State, [category |-> "Food", amount |-> 200,
                          period |-> "Monthly", spent |-> 0]))

CreateFails ==
    \E transaction \in FailureInputs :
        \E failAt \in 1..addTransactionWriteCount(State, transaction) :
            Run(addTransactionFailing(State, transaction, failAt))

UpdateFails ==
    \E i \in 1..Len(transactions) :
        \E transaction \in EditInputs(transactions[i], Amounts, {"Food"}, AssetNames) :
            \E failAt \in 1..updateTransactionWriteCount(State, transaction) :
                Run(updateTransactionFailing(State, transaction, failAt))

DeleteFails ==
    \E i \in 1..Len(transactions) :
        \E failAt \in 1..deleteTransactionWriteCount(State, transactions[i].id) :
            Run(deleteTransactionFailing(State, transactions[i].id, failAt))

UndoFails ==
    \E i \in 1..Len(recentlyDeleted) :
        \E failAt \in 1..undoDeleteTransactionWriteCount(State, recentlyDeleted[i]) :
            Run(undoDeleteTransactionFailing(State, recentlyDeleted[i], failAt))

NextFailure ==
    \/ CreateExpense \/ CreateFoodBudget \/ Delete
    \/ CreateFails \/ UpdateFails \/ DeleteFails \/ UndoFails

SpecFailure == Init /\ [][NextFailure]_vars

----------------------------------------------------------------------------
(* SpecForm: new transactions typed into the form, with amounts that are and
   that are not positive numbers, and Deletes. *)

AmountTexts == {"30", "0", "-30", "abc", ""}

FormInputs ==
    [type : StoredTypes, amount : AmountTexts, category : {"Food"},
     description : {""}, location : {"Wallet"}, date : RecentDates]

SaveNew == \E form \in FormInputs : Run(handleSave(State, form))

NextForm == SaveNew \/ Delete

SpecForm == Init /\ [][NextForm]_vars

----------------------------------------------------------------------------
(* SpecArchive: transactions of any age on one asset, reloads and launches
   of the app, the archive settings of the settings screen, and the archive
   manager: manual archiving, archiving a date range, restoring. *)

(* two of the periods the picker offers *)
ARCHIVE_PERIODS == {3, archiveAfterMonths}

Relaunch == Run(setupDatabase(State))
ToggleAutoArchive == Run(toggleAutoArchive(State))
ChangePeriod == \E months \in ARCHIVE_PERIODS : Run(updateArchivePeriod(State, months))
ManualArchive == Run(triggerManualArchive(State))

ArchiveRange ==
    \E startDate \in AllDates : \E endDate \in AllDates :
        /\ startDate <= endDate
        /\ Run(archiveTransactionsByDateRange(State, startDate, endDate))

RestoreArchived ==
    \E i \in 1..Len(dbArchived) : Run(restoreArchivedTransaction(State, dbArchived[i].id))

NextArchive ==
    \/ CreateDated \/ Reload \/ Relaunch \/ ToggleAutoArchive \/ ChangePeriod
    \/ ManualArchive \/ ArchiveRange \/ RestoreArchived \/ ClearAll

SpecArchive == Init /\ [][NextArchive]_vars

----------------------------------------------------------------------------
(* SpecRemaining: expenses of any age in one category, budgets of the three
   periods for it, Deletes and reloads. *)

PERIODS == {"Weekly", "Monthly", "Yearly"}

CreatePeriodBudget ==
    \E period \in PERIODS :
        Run(addBudget(State, [category |-> "Food", amount |-> 200,
                              period |-> period, spent |-> 0]))

NextRemaining == CreateDated \/ CreatePeriodBudget \/ Delete \/ Reload

SpecRemaining == Init /\ [][NextRemaining]_vars

----------------------------------------------------------------------------
(* SpecReconnect: the archive settings and the manual archive, where the
   store may throw, with or without a connection error, and the reconnect may
   or may not succeed. *)

CreateOld == Create(TxInputs({"expense"}, {30}, {"Food"}, {"Wallet"}, {0}))

SettingsFail ==
    \E message \in ErrorMessages : \E reconnected \in BOOLEAN :
        Run(updateArchiveSettingsFailing(State,
                [archiveSettings EXCEPT !.autoArchive = ~archiveSettings.autoArchive],
                message, reconnected))

ManualArchiveFails ==
    \E message \in ErrorMessages : \E reconnected \in BOOLEAN :
        Run(triggerManualArchiveFailing(State, message, reconnected))

NextReconnect ==
    \/ CreateOld \/ ToggleAutoArchive \/ ManualArchive
    \/ SettingsFail \/ ManualArchiveFails

SpecReconnect == Init /\ [][NextReconnect]_vars

----------------------------------------------------------------------------
(* SpecMove: transactions of any age, and the operations that move them
   between the transactions table and the archive. *)

NextMove == CreateDated \/ Reload \/ ManualArchive \/ ArchiveRange \/ RestoreArchived

SpecMove == Init /\ [][NextMove]_vars

----------------------------------------------------------------------------
(* SpecReload: reloads of the active transactions run call by call, between
   Creates of transactions of any age and changes of the auto-archive
   switch.  A call that has started runs on: the steps of a reload are
   weakly fair. *)

CreateWhenIdle == pc = "idle" /\ CreateDated
ToggleWhenIdle == pc = "idle" /\ ToggleAutoArchive
BeginReload == pc = "idle" /\ Run(beginReload(State))
StepReload == pc # "idle" /\ Becomes(stepReload(State))

NextReload == CreateWhenIdle \/ ToggleWhenIdle \/ BeginReload \/ StepReload

SpecReload == Init /\ [][NextReload]_vars /\ WF_vars(StepReload)

----------------------------------------------------------------------------
(* Vocabulary of the properties *)

Signed(t) ==
    IF t.type = "income" THEN t.amount
    ELSE IF t.type = "expense" THEN 0 - t.amount
    ELSE 0

(* Sum of the signed amounts of the rows located at the asset *)
RECURSIVE SignedSumAt(_, _)
SignedSumAt(rows, name) ==
    IF rows = <<>> THEN 0
    ELSE (IF Head(rows).location = name THEN Signed(Head(rows)) ELSE 0)
         + SignedSumAt(Tail(rows), name)

(* Sum of the amounts of the expense rows of the category with an id above
   the given one *)
RECURSIVE ExpenseSumSince(_, _, _)
ExpenseSumSince(rows, category, afterId) ==
    IF rows = <<>> THEN 0
    ELSE (IF /\ Head(rows).type = "expense"
             /\ Head(rows).category = category
             /\ Head(rows).id > afterId
          THEN Head(rows).amount ELSE 0)
         + ExpenseSumSince(Tail(rows), category, afterId)

(* Asset amounts by name, budget spent by id, transactions without identity *)
AmountsByName(table) == {<<table[i].name, table[i].amount>> : i \in 1..Len(table)}
SpentById(table) == {<<table[i].id, table[i].spent>> : i \in 1..Len(table)}
WithoutId(t) ==
    [type |-> t.type, amount |-> t.amount, category |-> t.category,
     description |-> t.description, location |-> t.location, date |-> t.date]
RECURSIVE BagWithoutIds(_)
BagWithoutIds(rows) ==
    IF rows = <<>> THEN EmptyBag
    ELSE BagWithoutIds(Tail(rows)) (+) SetToBag({WithoutId(Head(rows))})

AmountAt(table, name) == table[FindIndex(table, "name", name)].amount

----------------------------------------------------------------------------
(* C1: after any sequence of Create, Update, Delete and Restore/Undo, every
   asset's amount is its baseline plus the signed sum of the active
   transactions located at it (income +, expense -). *)
C1_AssetEqualsBaselinePlusActive ==
    \A i \in 1..Len(dbAssets) :
        dbAssets[i].amount
            = Baseline(dbAssets[i].name) + SignedSumAt(dbTransactions, dbAssets[i].name)

(* C2: every budget's spent is at least zero, in the store and in the React
   state, whatever Updates, category changes and Deletes ran. *)
C2_SpentNeverNegative ==
    /\ \A i \in 1..Len(dbBudgets) : dbBudgets[i].spent >= 0
    /\ \A i \in 1..Len(budgets) : budgets[i].spent >= 0

(* C2 witness: the fourth operation deleted expense 1 of amount 50 while
   expense 2 of amount 30 in the same category stays active and the one budget
   of that category stands at zero: the budget was created after expense 1,
   so the Delete lowered spent below zero and the floor put it at 0. *)
C2_DeleteFlooredAtZero ==
    /\ nOps = 4
    /\ last.op = "delete" /\ last.ret = "true"
    /\ last.tx.id = 1 /\ last.tx.type = "expense" /\ last.tx.amount = 50
    /\ Len(dbTransactions) = 1
    /\ dbTransactions[1].type = "expense"
    /\ dbTransactions[1].amount = 30
    /\ dbTransactions[1].category = last.tx.category
    /\ Len(dbBudgets) = 1
    /\ dbBudgets[1].category = last.tx.category
    /\ dbBudgets[1].spent = 0
    /\ budgets[1].spent = 0

(* C3: a budget's spent equals the sum of the amounts of the active expense
   transactions of its category created after the budget. *)
C3_SpentEqualsActiveExpenses ==
    \A i \in 1..Len(dbBudgets) :
        dbBudgets[i].spent
            = ExpenseSumSince(dbTransactions, dbBudgets[i].category,
                              bornAt[dbBudgets[i].id])

(* C4: for every active transaction t, Delete(t.id) followed at once by
   Restore/Undo of t's snapshot gives back the asset amounts and the budget
   spent values, and the same active transactions up to t's identity. *)
C4_DeleteThenUndoRestores ==
    \A i \in 1..Len(transactions) :
        LET t == transactions[i]
            D == deleteTransaction(State, t.id)
            U == undoDeleteTransaction(D, t)
        IN  /\ AmountsByName(U.dbAssets) = AmountsByName(dbAssets)
            /\ AmountsByName(U.assets) = AmountsByName(assets)
            /\ SpentById(U.dbBudgets) = SpentById(dbBudgets)
            /\ SpentById(U.budgets) = SpentById(budgets)
            /\ BagWithoutIds(U.dbTransactions) = BagWithoutIds(dbTransactions)
            /\ BagWithoutIds(U.transactions) = BagWithoutIds(transactions)
            /\ \A j \in 1..Len(U.dbTransactions) : U.dbTransactions[j].id # t.id

BudgetWithoutId(b) ==
    [category |-> b.category, amount |-> b.amount, period |-> b.period, spent |-> b.spent]
RECURSIVE BudgetBagWithoutIds(_)
BudgetBagWithoutIds(rows) ==
    IF rows = <<>> THEN EmptyBag
    ELSE BudgetBagWithoutIds(Tail(rows)) (+) SetToBag({BudgetWithoutId(Head(rows))})

(* C5: export, import of that export into an emptied store, and a second
   export give the assets, transactions and budgets the store held before the
   first export, identities aside. *)
C5_ExportImportExportRoundTrip ==
    LET again == ExportDocument(importData(State, ExportDocument(State)))
    IN  /\ AmountsByName(again.assets) = AmountsByName(dbAssets)
        /\ BagWithoutIds(again.transactions) = BagWithoutIds(dbTransactions)
        /\ BudgetBagWithoutIds(again.budgets) = BudgetBagWithoutIds(dbBudgets)

(* C6: Create at a location that names an existing asset moves that asset's
   amount by exactly +value (income) or -value (expense) and no other asset. *)
C6_CreateMovesExactlyOneAsset ==
    \A transaction \in TxInputs(InputTypes, Amounts, {"Food"}, AssetNames, RecentDates) :
        LET R == addTransaction(State, transaction)
            v == validatedTransaction(transaction)
        IN  FindIndex(dbAssets, "name", v.location) # 0 =>
                \A i \in 1..Len(dbAssets) :
                    R.dbAssets[i].amount
                        = dbAssets[i].amount
                          + (IF dbAssets[i].name = v.location THEN Signed(v) ELSE 0)

(* C7: Create of an expense whose category matches N >= 1 budgets raises the
   spent of each of them by the amount, in the store and in the React state
   alike, and leaves the other budgets as they were. *)
C7_CreateRaisesEveryMatchingBudget ==
    \A transaction \in TxInputs({"expense", "Expense"}, Amounts, Categories,
                                {"Wallet"}, RecentDates) :
        LET R == addTransaction(State, transaction)
            raise(b) == IF b.category = transaction.category THEN transaction.amount ELSE 0
        IN  FilterBy(dbBudgets, "category", transaction.category) # <<>> =>
                /\ \A i \in 1..Len(dbBudgets) :
                        R.dbBudgets[i].spent = dbBudgets[i].spent + raise(dbBudgets[i])
                /\ \A i \in 1..Len(budgets) :
                        R.budgets[i].spent = budgets[i].spent + raise(budgets[i])

(* C8: Update that keeps the location and changes amount and/or type moves
   that location's asset by exactly (signed new - signed original) and no
   other asset. *)
C8_UpdateSameLocationAppliesDelta ==
    \A k \in 1..Len(transactions) :
        LET t == transactions[k]
        IN  \A transaction \in EditInputs(t, Amounts, {t.category}, {t.location}) :
                LET R == updateTransaction(State, transaction)
                IN  FindIndex(dbAssets, "name", t.location) # 0 =>
                        \A i \in 1..Len(dbAssets) :
                            R.dbAssets[i].amount
                                = dbAssets[i].amount
                                  + (IF dbAssets[i].name = t.location
                                     THEN Signed(transaction) - Signed(t) ELSE 0)

(* C9: Update that moves a transaction from asset X to asset Y takes the full
   signed original effect off X and puts the full signed new effect on Y, in
   the store and in the React state alike; Y gets it also when X names no
   asset. *)
C9_UpdateLocationMovesFullEffect ==
    \A k \in 1..Len(transactions) :
        LET t == transactions[k]
        IN  \A transaction \in EditInputs(t, Amounts, {t.category}, AssetNames) :
                LET R == updateTransaction(State, transaction)
                    moved(name) ==
                        (IF name = t.location THEN 0 - Signed(t) ELSE 0)
                        + (IF name = transaction.location THEN Signed(transaction) ELSE 0)
                IN  transaction.location # t.location =>
                        \A name \in AssetNames :
                            /\ AmountAt(R.dbAssets, name)
                                    = AmountAt(dbAssets, name) + moved(name)
                            /\ AmountAt(R.assets, name)
                                    = AmountAt(assets, name) + moved(name)

(* C10: Update of an expense that changes its category from C1 to C2 lowers
   every C1 budget by the original amount, floored at zero, and raises every
   C2 budget by the new amount, in the store and in the React state alike. *)
C10_UpdateCategoryMovesSpent ==
    \A k \in 1..Len(transactions) :
        LET t == transactions[k]
        IN  \A transaction \in EditInputs(t, Amounts, Categories, {t.location}) :
                LET R == updateTransaction(State, transaction)
                    after(b) ==
                        IF b.category = t.category
                        THEN (IF b.spent - t.amount < 0 THEN 0 ELSE b.spent - t.amount)
                        ELSE IF b.category = transaction.category
                        THEN b.spent + transaction.amount
                        ELSE b.spent
                IN  ( /\ t.type = "expense"
                      /\ transaction.type = "expense"
                      /\ transaction.category # t.category ) =>
                        /\ \A i \in 1..Len(dbBudgets) :
                                R.dbBudgets[i].spent = after(dbBudgets[i])
                        /\ \A i \in 1..Len(budgets) :
                                R.budgets[i].spent = after(budgets[i])

(* C11: a successful Delete(id) of an active transaction t takes t's signed
   effect off its asset, lowers the spent of each budget of t's category by
   t's amount floored at zero when t is an expense, appends exactly one
   History record ('delete', snapshot of t), removes t from the active set,
   puts t at the front of the Undo Buffer and returns true. *)
C11_DeleteReversesAndRecords ==
    \A k \in 1..Len(transactions) :
        LET t == transactions[k]
            D == deleteTransaction(State, t.id)
            lowered(b) ==
                IF t.type = "expense" /\ b.category = t.category
                THEN (IF b.spent - t.amount < 0 THEN 0 ELSE b.spent - t.amount)
                ELSE b.spent
            reversed(a) == a.amount - (IF a.name = t.location THEN Signed(t) ELSE 0)
        IN  /\ D.last.ret = "true"
            /\ \A i \in 1..Len(dbAssets) : D.dbAssets[i].amount = reversed(dbAssets[i])
            /\ \A name \in AssetNames :
                    AmountAt(D.assets, name)
                        = AmountAt(assets, name)
                          - (IF name = t.location THEN Signed(t) ELSE 0)
            /\ \A i \in 1..Len(dbBudgets) : D.dbBudgets[i].spent = lowered(dbBudgets[i])
            /\ \A i \in 1..Len(budgets) : D.budgets[i].spent = lowered(budgets[i])
            /\ D.dbHistory = Append(dbHistory, HistoryRow(t.id, "delete", t))
            /\ \A j \in 1..Len(D.dbTransactions) : D.dbTransactions[j].id # t.id
            /\ \A j \in 1..Len(D.transactions) : D.transactions[j].id # t.id
            /\ D.recentlyDeleted # <<>> /\ D.recentlyDeleted[1] = t

(* C12: Delete(id) for an id that is not in the active set returns false and
   leaves the assets, the budgets, the transactions, the History log, the
   archive and the Undo Buffer as they were, in the store and in the React
   state. *)
C12_DeleteAbsentChangesNothing ==
    [][ (last'.op = "delete" /\ last'.tx.id \notin ActiveIds) =>
            /\ last'.ret = "false"
            /\ UNCHANGED <<dbAssets, dbTransactions, dbBudgets, dbHistory, dbArchived,
                           assets, transactions, budgets, recentlyDeleted>> ]_vars

(* C12 witness: a Delete of the id of the transaction deleted just before (it
   is at the front of the Undo Buffer) has returned false. *)
C12_DeletedTwiceReturnedFalse ==
    /\ last.op = "delete" /\ last.ret = "false"
    /\ recentlyDeleted # <<>>
    /\ last.tx.id = recentlyDeleted[1].id
    /\ last.tx.id \notin ActiveIds

(* The position in the History log of the last 'delete' record of the id,
   0 when there is none *)
DeletedAt(id) ==
    LET rows == {k \in 1..Len(dbHistory) :
                    dbHistory[k].action = "delete" /\ dbHistory[k].transaction_id = id}
    IN  IF rows = {} THEN 0 ELSE CHOOSE k \in rows : \A j \in rows : j <= k

(* C13: the Undo Buffer never holds more than 5 transactions; its entries are
   deleted transactions, the later deleted nearer the front; a successful
   Delete puts the deleted transaction at the front, keeps the others in
   order and, when the buffer held 5, drops exactly the last (oldest) one. *)
C13_UndoBufferHoldsLastFive ==
    /\ Len(recentlyDeleted) <= 5
    /\ \A i \in 1..Len(recentlyDeleted) :
            /\ DeletedAt(recentlyDeleted[i].id) # 0
            /\ dbHistory[DeletedAt(recentlyDeleted[i].id)].data = recentlyDeleted[i]
            /\ \A j \in (i + 1)..Len(recentlyDeleted) :
                    DeletedAt(recentlyDeleted[i].id) > DeletedAt(recentlyDeleted[j].id)
    /\ \A k \in 1..Len(transactions) :
            LET t == transactions[k]
                D == deleteTransaction(State, t.id)
            IN  /\ Len(D.recentlyDeleted) = Min(Len(recentlyDeleted) + 1, 5)
                /\ D.recentlyDeleted[1] = t
                /\ \A j \in 2..Len(D.recentlyDeleted) :
                        D.recentlyDeleted[j] = recentlyDeleted[j - 1]

(* C13 witness: six Deletes and nothing else ran; the buffer holds five, the
   last of them the second deleted: the first deleted was evicted. *)
C13_SixthDeleteEvictedOldest ==
    /\ last.op = "delete" /\ last.ret = "true"
    /\ Len(dbHistory) = 6
    /\ \A k \in 1..Len(dbHistory) : dbHistory[k].action = "delete"
    /\ Len(recentlyDeleted) = 5
    /\ recentlyDeleted[1] = last.tx
    /\ recentlyDeleted[5].id = dbHistory[2].transaction_id
    /\ \A i \in 1..5 : recentlyDeleted[i].id # dbHistory[1].transaction_id

(* What Restore/Undo of the buffer entry tx does besides choosing the
   identity: tx's fields are inserted as one new row, first in the React
   state's active set; the buffer loses tx's entry; the History log gains one
   'restore' record of tx. *)
UndoRecreates(tx, U) ==
    /\ Len(U.dbTransactions) = Len(dbTransactions) + 1
    /\ WithoutId(U.dbTransactions[Len(U.dbTransactions)]) = WithoutId(tx)
    /\ U.transactions = <<U.dbTransactions[Len(U.dbTransactions)]>> \o transactions
    /\ \A i \in 1..Len(U.recentlyDeleted) : U.recentlyDeleted[i].id # tx.id
    /\ Len(U.recentlyDeleted) < Len(recentlyDeleted)
    /\ U.dbHistory = Append(dbHistory, HistoryRow(tx.id, "restore", tx))
    /\ U.last.ret = "true"

(* C14 as stated: Restore/Undo(tx) re-creates tx as an active transaction
   under an identity different from tx.id, removes tx's entry from the Undo
   Buffer and appends one History record with action 'restore'. *)
C14_UndoRecreatesUnderNewIdentity ==
    \A k \in 1..Len(recentlyDeleted) :
        LET tx == recentlyDeleted[k]
            U == undoDeleteTransaction(State, tx)
        IN  /\ UndoRecreates(tx, U)
            /\ U.transactions[1].id # tx.id

(* The rows of the store *)
StoreRows(R) == <<R.dbAssets, R.dbTransactions, R.dbBudgets, R.dbHistory, R.dbArchived>>

(* C15: when a store write of a Create, an Update, a Delete, a Restore/Undo
   or an auto-archive fails part-way, the transaction, asset, budget, history
   and archive rows of the store are what they were before the operation. *)
C15_FailedOperationLeavesStore ==
    /\ \A transaction \in FailureInputs :
            \A failAt \in 1..addTransactionWriteCount(State, transaction) :
                StoreRows(addTransactionFailing(State, transaction, failAt))
                    = StoreRows(State)
    /\ \A k \in 1..Len(transactions) :
            /\ \A failAt \in 1..deleteTransactionWriteCount(State, transactions[k].id) :
                    StoreRows(deleteTransactionFailing(State, transactions[k].id, failAt))
                        = StoreRows(State)
            /\ \A transaction \in EditInputs(transactions[k], Amounts, {"Food"}, AssetNames) :
                    \A failAt \in 1..updateTransactionWriteCount(State, transaction) :
                        StoreRows(updateTransactionFailing(State, transaction, failAt))
                            = StoreRows(State)
    /\ \A k \in 1..Len(recentlyDeleted) :
            \A failAt \in 1..undoDeleteTransactionWriteCount(State, recentlyDeleted[k]) :
                StoreRows(undoDeleteTransactionFailing(State, recentlyDeleted[k], failAt))
                    = StoreRows(State)
    /\ StoreRows(autoArchiveOldTransactionsFailing(State)) = StoreRows(State)

(* The React state of the three collections *)
Projections(R) == <<R.assets, R.budgets, R.transactions>>

(* C16: when the atomic unit of a Create or of a Delete aborts, the React
   state's assets, budgets and transactions are what they were before the
   operation. *)
C16_AbortedUnitLeavesProjections ==
    /\ \A transaction \in FailureInputs :
            \A failAt \in 1..addTransactionWriteCount(State, transaction) :
                Projections(addTransactionFailing(State, transaction, failAt))
                    = Projections(State)
    /\ \A k \in 1..Len(transactions) :
            \A failAt \in 1..deleteTransactionWriteCount(State, transactions[k].id) :
                Projections(deleteTransactionFailing(State, transactions[k].id, failAt))
                    = Projections(State)

(* The amount texts that denote a positive finite number *)
PositiveAmountTexts == {"30", "50"}

(* C17: a Create whose amount is not a positive finite number (zero,
   negative, not a number, missing) is rejected with a validation error:
   no row is inserted and no table, no projection and no buffer changes. *)
C17_InvalidAmountRejected ==
    \A form \in FormInputs :
        form.amount \notin PositiveAmountTexts =>
            LET R == handleSave(State, form)
            IN  /\ R.last.ret = "alert"
                /\ StoreRows(R) = StoreRows(State)
                /\ Projections(R) = Projections(State)
                /\ R.seqTransactions = seqTransactions
                /\ R.recentlyDeleted = recentlyDeleted

(* C17 witness: a ledger that holds a transaction, and the form has just
   rejected the amount "-30". *)
C17_NegativeAmountAlerted ==
    /\ last.op = "save" /\ last.ret = "alert"
    /\ last.tx.description = "-30"
    /\ Len(dbTransactions) = 1
    /\ nOps = 2

(* C18: a successful Create returns the created transaction, carrying the
   identity the store gave to the inserted row, and no other active
   transaction has that identity. *)
C18_CreateReturnsCreated ==
    last.op = "add" =>
        /\ last.ret = "transaction"
        /\ dbTransactions # <<>>
        /\ dbTransactions[Len(dbTransactions)] = last.tx
        /\ last.tx.id = seqTransactions
        /\ Cardinality({i \in 1..Len(dbTransactions) : dbTransactions[i].id = last.tx.id}) = 1
        /\ Cardinality({i \in 1..Len(transactions) : transactions[i].id = last.tx.id}) = 1

(* C19: a Create whose location names no asset inserts the row, puts it
   first in the active set, raises the spent of every budget of its category
   when it is an expense, in the store and in the React state, and leaves
   every asset as it was. *)
C19_CreateAtUnknownLocation ==
    \A transaction \in TxInputs(InputTypes, Amounts, Categories,
                                Locations \ AssetNames, RecentDates) :
        LET R == addTransaction(State, transaction)
            v == validatedTransaction(transaction)
            row == WithId(v, seqTransactions + 1)
            raise(b) == IF v.type = "expense" /\ b.category = v.category
                        THEN v.amount ELSE 0
        IN  /\ R.dbTransactions = Append(dbTransactions, row)
            /\ R.transactions = <<row>> \o transactions
            /\ \A i \in 1..Len(dbBudgets) :
                    R.dbBudgets[i].spent = dbBudgets[i].spent + raise(dbBudgets[i])
            /\ \A i \in 1..Len(budgets) :
                    R.budgets[i].spent = budgets[i].spent + raise(budgets[i])
            /\ R.dbAssets = dbAssets
            /\ R.assets = assets

(* The rows of a table that an auto-archive run now would move *)
DueForArchive(rows) == WhereDateBefore(rows, Now - archiveAfterMonths)

(* C20: AutoArchive moves every active transaction dated before now minus
   archiveAfterMonths into the archive and takes it out of the active set,
   in the store and in the React state; it moves no newer transaction and
   leaves every asset amount and every budget spent as it was. *)
C20_AutoArchiveMovesOldOnly ==
    LET A == autoArchiveOldTransactions(State)
        old == DueForArchive(dbTransactions)
    IN  /\ Len(A.dbArchived) = Len(dbArchived) + Len(old)
        /\ \A i \in 1..Len(old) :
                LET moved == A.dbArchived[Len(dbArchived) + i]
                IN  /\ moved.original_id = old[i].id
                    /\ WithoutId(moved) = WithoutId(old[i])
        /\ DueForArchive(A.dbTransactions) = <<>>
        /\ DueForArchive(A.transactions) = <<>>
        /\ A.dbTransactions = WhereDateFrom(dbTransactions, Now - archiveAfterMonths)
        /\ WhereDateFrom(A.transactions, Now - archiveAfterMonths)
                = WhereDateFrom(transactions, Now - archiveAfterMonths)
        /\ A.dbAssets = dbAssets /\ A.assets = assets
        /\ A.dbBudgets = dbBudgets /\ A.budgets = budgets

----------------------------------------------------------------------------
(* The rows of the active store that the stored settings make due *)
DueByStoredSettings(rows, table) ==
    WhereDateBefore(rows, Now - table[1].archive_after_months)

(* C21: every load or reload of the active transactions made while the
   stored autoArchive is enabled -- the load of the launch included -- runs
   AutoArchive with the stored archiveAfterMonths, so that no active row
   older than that is left; a load made while it is disabled moves nothing. *)
C21_LoadRunsAutoArchive ==
    [][(nOps' = nOps + 1 /\ last'.op \in {"reload", "launch"})
        => IF Boolean(dbArchiveSettings'[1].auto_archive)
           THEN DueByStoredSettings(dbTransactions', dbArchiveSettings') = <<>>
           ELSE UNCHANGED <<dbTransactions, dbArchived>>]_vars

----------------------------------------------------------------------------
(* C22: ArchiveRange(startDate, endDate) moves exactly the active
   transactions dated within [startDate, endDate] into the archive, returns
   how many it moved (0 when none is in the range), and afterwards none of
   them is in the active set, neither in the store nor in the React state. *)
C22_ArchiveRangeMovesRange ==
    \A startDate \in AllDates : \A endDate \in AllDates :
        LET A == archiveTransactionsByDateRange(State, startDate, endDate)
            inRange == WhereDateBetween(dbTransactions, startDate, endDate)
        IN  /\ A.last.ret = "count" /\ A.last.count = Len(inRange)
            /\ Len(A.dbArchived) = Len(dbArchived) + Len(inRange)
            /\ \A i \in 1..Len(inRange) :
                    LET moved == A.dbArchived[Len(dbArchived) + i]
                    IN  /\ moved.original_id = inRange[i].id
                        /\ WithoutId(moved) = WithoutId(inRange[i])
            /\ A.dbTransactions = DeleteDateBetween(dbTransactions, startDate, endDate)
            /\ WhereDateBetween(A.dbTransactions, startDate, endDate) = <<>>
            /\ WhereDateBetween(A.transactions, startDate, endDate) = <<>>

----------------------------------------------------------------------------
Ids(rows) == {rows[i].id : i \in 1..Len(rows)}

(* C23: a successful Restore of an archived row puts the transaction into
   the active store under a new identity (not the id it had before it was
   archived, not the id of an active row), takes it out of the archive, and
   leaves every asset amount and every budget spent as it was -- also while
   autoArchive is enabled and the transaction is older than
   archiveAfterMonths. *)
C23_RestoreMovesBackUnderNewIdentity ==
    \A i \in 1..Len(dbArchived) :
        LET archived == dbArchived[i]
            R == restoreArchivedTransaction(State, archived.id)
            restored == R.dbTransactions[Len(R.dbTransactions)]
        IN  /\ R.last.ret = "true"
            /\ Len(R.dbTransactions) = Len(dbTransactions) + 1
            /\ SubSeq(R.dbTransactions, 1, Len(dbTransactions)) = dbTransactions
            /\ WithoutId(restored) = WithoutId(archived)
            /\ restored.id \notin Ids(dbTransactions)
            /\ restored.id # archived.original_id
            /\ archived.id \notin Ids(R.dbArchived)
            /\ Len(R.dbArchived) = Len(dbArchived) - 1
            /\ R.dbAssets = dbAssets /\ R.assets = assets
            /\ R.dbBudgets = dbBudgets /\ R.budgets = budgets

----------------------------------------------------------------------------
(* C24: BudgetRemaining(budgetId) is the budget's amount minus the sum of the
   amounts of the active expense transactions (the rows of the transactions
   table) of the budget's category dated on or after the start of the
   budget's period, for Weekly, Monthly and Yearly budgets; for an id that
   no budget has it is 0. *)
C24_RemainingIsAmountMinusActiveExpenses ==
    /\ \A i \in 1..Len(dbBudgets) :
            LET budget == dbBudgets[i]
            IN  getBudgetRemaining(State, budget.id)
                    = budget.amount
                      - expensesInCategory(dbTransactions, budget.category,
                                           getStartDateForPeriod(budget.period))
    /\ getBudgetRemaining(State, seqBudgets + 1) = 0

----------------------------------------------------------------------------
SearchTerms == {"oo", "WAL", "a", "zz"}

(* The rows of a table that contain the term in category, description or
   location, each with its source *)
Matching(rows, term, source) ==
    {[source |-> source] @@ rows[i] :
        i \in {j \in 1..Len(rows) :
                \/ Like(rows[j].category, term)
                \/ Like(rows[j].description, term)
                \/ Like(rows[j].location, term)}}

(* C25: SearchAll(term, includeArchived) returns exactly the transactions
   whose category, description or location contains the term, from the
   active store and, when includeArchived is set, from the archive too, each
   tagged 'active' or 'archived' by where it is stored, and the whole list is
   in descending order of date. *)
C25_SearchAllTaggedAndOrdered ==
    \A term \in SearchTerms : \A includeArchived \in BOOLEAN :
        LET results == searchAllTransactions(State, term, includeArchived)
        IN  /\ Range(results)
                    = Matching(dbTransactions, term, "active")
                      \cup (IF includeArchived
                            THEN Matching(dbArchived, term, "archived")
                            ELSE {})
            /\ Len(results) = Len(WhereLike(dbTransactions, term))
                              + (IF includeArchived
                                 THEN Len(WhereLike(dbArchived, term)) ELSE 0)
            /\ \A i \in 1..Len(results) : \A j \in i..Len(results) :
                    results[i].date >= results[j].date

----------------------------------------------------------------------------
(* C26: after an Import the store holds exactly the imported assets,
   transactions and budgets, with the amounts and the spent values of the
   document (nothing is reconciled again), and nothing of what was there
   before the Import, archived transactions included. *)
C26_ImportReplacesEverything ==
    last.op = "import" =>
        /\ AmountsByName(dbAssets) = AmountsByName(exportFile.assets)
        /\ Len(dbAssets) = Len(exportFile.assets)
        /\ BagWithoutIds(dbTransactions) = BagWithoutIds(exportFile.transactions)
        /\ BudgetBagWithoutIds(dbBudgets) = BudgetBagWithoutIds(exportFile.budgets)
        /\ dbArchived = <<>>

----------------------------------------------------------------------------
IsConnectionError(message) ==
    includes(message, "NullPointerException") \/ includes(message, "not opened")

(* C27: an operation under safeDbOperation that fails with a connection
   error (a message with 'NullPointerException' or 'not opened') once the
   database is initialized causes exactly one reconnect attempt, is not run
   again (the store and the settings stay as the failure left them), and
   returns null whether the reconnect succeeds or not; any other error causes
   no reconnect attempt. *)
C27_OneReconnectAttemptNoRerun ==
    [][(nOps' = nOps + 1 /\ "error" \in DOMAIN last')
        => /\ last'.ret = "null"
           /\ opens' = opens + (IF dbInitialized /\ IsConnectionError(last'.error)
                                THEN 1 ELSE 0)
           /\ db' \in {db, opens'}
           /\ (~IsConnectionError(last'.error) => db' = db)
           /\ UNCHANGED <<dbAssets, dbTransactions, dbBudgets, dbHistory, dbArchived,
                          dbArchiveSettings, archiveSettings, transactions>>]_vars

(* a connection error was caught, the reconnect was attempted and failed *)
C27_ReconnectAttemptedAndFailed ==
    /\ "error" \in DOMAIN last
    /\ last.ret = "null"
    /\ IsConnectionError(last.error)
    /\ opens > 1
    /\ db < opens

----------------------------------------------------------------------------
AmountsById(table) == {<<table[i].id, table[i].amount>> : i \in 1..Len(table)}

(* C28: after every completed Create, Update, Delete or Restore/Undo the
   React state agrees with the store: every asset's amount and every
   budget's spent in the React state is the value of its row in the store,
   also when the operation wrote two assets (a change of location) or
   several budgets of one category. *)
C28_ProjectionsAgreeWithStore ==
    last.op \in {"add", "update", "delete", "undo"} /\ last.ret # "null"
        => /\ AmountsById(assets) = AmountsById(dbAssets)
           /\ SpentById(budgets) = SpentById(dbBudgets)

----------------------------------------------------------------------------
(* The transactions of the two tables together, without their identities *)
Everywhere == BagWithoutIds(dbTransactions) (+) BagWithoutIds(dbArchived)

(* C29: AutoArchive (manual or by a reload), ArchiveRange and the Restore of
   an archived row lose and duplicate nothing: the transactions of the active
   table and of the archive together are the same before and after, each in
   one of the two, with its type, amount, category, description, location and
   date. *)
C29_ArchiveMovesLoseNothing ==
    [][(nOps' = nOps + 1
        /\ last'.op \in {"reload", "manualArchive", "archiveRange", "restoreArchived"})
        => Everywhere' = Everywhere]_vars

(* a row was restored while another one stayed in the archive *)
C29_RestoredBesideArchived ==
    /\ last.op = "restoreArchived"
    /\ last.ret = "true"
    /\ dbArchived # <<>>
    /\ \E i \in 1..Len(dbTransactions) : dbTransactions[i].id = last.tx.id

----------------------------------------------------------------------------
(* C30: a reload of the active transactions with autoArchive enabled
   terminates: loadTransactions calls autoArchiveOldTransactions, which calls
   loadTransactions again, and the chain of calls ends after finitely many
   steps -- every reload that has started comes to its end. *)
C30_ReloadTerminates == (pc # "idle") ~> (pc = "idle")

(* the archive pass has moved rows and called loadTransactions again *)
C30_ArchiveCalledLoadAgain ==
    /\ pc = "loadTransactions()"
    /\ archiveSettings.autoArchive
    /\ dbArchived # <<>>

====
